---- MODULE Spec2Model ----
(***************************************************************************)
(* Model of discord_emoji_ranking/module.py: the EmojiRanking cog.         *)
(*                                                                         *)
(*   SpecRank   sort_ranking and the leaderboard-size clamp of _execute,   *)
(*              applied to counters, order and size drawn from bounded     *)
(*              sets.                                                      *)
(*   SpecCount  count_emojis applied, with no other command in flight, to  *)
(*              one message drawn from a bounded set, repeatedly into the  *)
(*              same counters.                                             *)
(*   SpecBatch  count_emojis fed a pool of messages in batches of any      *)
(*              partition and order.                                       *)
(*   Spec       the emoji_ranking command invoked NumRuns times on one     *)
(*              cog, the invocations interleaving at their awaits.         *)
(*   SpecSolo   the same with a single invocation.                         *)
(***************************************************************************)
EXTENDS Integers, Sequences, FiniteSets, TLC

\* ------------------------------------------------------------------ bounds
NumEmojis == 3      \* largest catalog (guild.emojis) drawn exhaustively
NumUsers == 3       \* users 1..NumUsers; user 1 is human, the others are bots
MaxText == 2        \* longest message content, in characters
MaxCalls == 2       \* count_emojis calls into one set of counters
MaxPool == 3        \* messages in the pool fed in batches
NumRuns == 2        \* invocations of the command on the one cog
MaxContent == 1     \* largest initial MESSAGE_CONTENT tally of a counter
MaxReaction == 1    \* largest initial MESSAGE_REACTION tally of a counter

\* ------------------------------------------------------------------ _SortOrder
ASCENDING == "ASCENDING"
DESCENDING == "DESCENDING"
SortOrders == {ASCENDING, DESCENDING}

\* _SortOrder.parse: only the exact string "ascending" selects ASCENDING.
Parse(value) == IF value = "ascending" THEN ASCENDING ELSE DESCENDING

\* _SortOrder.reverse
Reverse(value) == IF value = DESCENDING THEN TRUE ELSE FALSE

\* ------------------------------------------------------------------ _EmojiCounter
MESSAGE_CONTENT == "content"
MESSAGE_REACTION == "reaction"

\* _EmojiCounter.__init__: rank 0 and a zero tally for every count type.
NewCounter(emoji) == [emoji |-> emoji, rank |-> 0, content |-> 0, reaction |-> 0]

\* _EmojiCounter.total_count: the sum of the tallies.
total_count(c) == c.content + c.reaction

\* ------------------------------------------------------------------ sort_ranking
Min(a, b) == IF a < b THEN a ELSE b
Max(a, b) == IF a > b THEN a ELSE b

\* Mutant of PySlice: a tie that straddles the cut is expanded.
PySliceExpandingTies(s, k) ==
    LET n == Len(s)
        stop == IF k < 0 THEN Max(n + k, 0) ELSE Min(k, n)
        more == {j \in stop..n :
                    \A i \in (stop + 1)..j :
                        stop >= 1 /\ s[i].content + s[i].reaction
                                      = s[stop].content + s[stop].reaction}
        last == CHOOSE j \in more : \A i \in more : i <= j
    IN  SubSeq(s, 1, last)

\* Python's s[0:k]: a negative k counts from the end, an oversized k is cut.
PySlice(s, k) ==
    LET n == Len(s)
        stop == IF k < 0 THEN Max(n + k, 0) ELSE Min(k, n)
    IN  SubSeq(s, 1, stop)

\* x goes strictly before y in the requested direction.
KeyBefore(x, y, reverse) ==
    IF reverse THEN total_count(x) > total_count(y)
               ELSE total_count(x) < total_count(y)

\* One step of a stable sort: x, the latest element in input order, is put
\* behind every element it does not strictly precede.
StableInsert(s, x, reverse) ==
    LET before == {j \in 1..Len(s) : KeyBefore(x, s[j], reverse)}
        pos == IF before = {} THEN Len(s) + 1
               ELSE CHOOSE j \in before : \A k \in before : j <= k
    IN  SubSeq(s, 1, pos - 1) \o <<x>> \o SubSeq(s, pos, Len(s))

RECURSIVE SortedPrefix(_, _, _)
SortedPrefix(s, k, reverse) ==
    IF k = 0 THEN <<>>
    ELSE StableInsert(SortedPrefix(s, k - 1, reverse), s[k], reverse)

\* Mutant of Sorted: reverse=True done as an ascending sort read backwards,
\* which turns the ties around.
SortedThenReversed(s, reverse) ==
    LET asc == SortedPrefix(s, Len(s), FALSE)
    IN  IF reverse THEN [i \in 1..Len(asc) |-> asc[Len(asc) + 1 - i]] ELSE asc

\* sorted(counters, key=total_count, reverse=reverse): stable in both
\* directions (reverse=True keeps equal keys in input order).
Sorted(s, reverse) == SortedPrefix(s, Len(s), reverse)

\* Mutants of PositionRank: dense ranking, and ranking that ignores ties.
DenseRank(i, prevRank, tied) == IF tied THEN prevRank ELSE prevRank + 1
RawPositionRank(i, prevRank, tied) == i

\* The rank given at 0-based index i-1 of the truncated list (lines 301-308).
PositionRank(i, prevRank, tied) == IF tied THEN prevRank ELSE i

AssignRanks(s) ==
    LET rk[i \in 1..Len(s)] ==
            IF i = 1 THEN 1
            ELSE PositionRank(i, rk[i - 1],
                              total_count(s[i - 1]) = total_count(s[i]))
    IN  [i \in 1..Len(s) |-> [s[i] EXCEPT !.rank = rk[i]]]

\* EmojiRanking.sort_ranking(counters, slice_num) under self._order = order.
sort_ranking(cs, order, slice_num) ==
    AssignRanks(PySlice(Sorted(cs, Reverse(order)), slice_num))

\* The counters are objects: the ranks written through sorted_counters show
\* in the list they were taken from.
WithRanks(cs, ranked) ==
    [i \in 1..Len(cs) |->
        IF \E j \in 1..Len(ranked) : ranked[j].emoji = cs[i].emoji
        THEN LET j == CHOOSE j \in 1..Len(ranked) : ranked[j].emoji = cs[i].emoji
             IN  ranked[j]
        ELSE cs[i]]

\* Mutant of ClampRank: the upper clamp is missing.
ClampRankNoUpper(r, n) == Max(1, r)

\* _execute line 233: rank = max(1, min(self._rank, len(ctx.guild.emojis)))
ClampRank(r, n) == Max(1, Min(r, n))

\* ------------------------------------------------------------------ guild data
Users == 1..NumUsers

\* discord.User.bot
IsBot(u) == u > 1

Chars == {"a", "b"}
Texts == UNION {[1..n -> Chars] : n \in 0..MaxText}

\* discord.Emoji.name of the catalog emoji with id i. Names overlap: a text
\* can hold several names, and one name several times.
EmojiName(i) ==
    CASE i = 1 -> <<"a">>
      [] i = 2 -> <<"a", "b">>
      [] i = 3 -> <<"b">>
      [] OTHER -> <<"b", "a">>

\* Python's `name in content` on strings: a contiguous occurrence.
PyIn(name, content) ==
    \E i \in 1..(Len(content) - Len(name) + 1) :
        SubSeq(content, i, i + Len(name) - 1) = name

\* ------------------------------------------------------------------ count_emojis
\* _EmojiCounter.increment with the tally set instead of added to (mutant).
IncrementBySetting(c, count_type) ==
    IF count_type = MESSAGE_CONTENT THEN [c EXCEPT !.content = 1]
                                    ELSE [c EXCEPT !.reaction = 1]

\* _EmojiCounter.increment
Increment(c, count_type) ==
    IF count_type = MESSAGE_CONTENT THEN [c EXCEPT !.content = @ + 1]
                                    ELSE [c EXCEPT !.reaction = @ + 1]

\* Mutant of TextCounts: the bot guard of line 272 is missing.
TextCountsBotsToo(emoji, message, user_ids, contains_bot) ==
    LET author_matches == user_ids = {} \/ message.author \in user_ids
    IN  author_matches /\ PyIn(EmojiName(emoji), message.content)

\* Lines 267, 270-272: the message adds 1 to the counter's content tally.
TextCounts(emoji, message, user_ids, contains_bot) ==
    LET author_matches == user_ids = {} \/ message.author \in user_ids
    IN  /\ author_matches /\ PyIn(EmojiName(emoji), message.content)
        /\ (contains_bot \/ ~IsBot(message.author))

\* Lines 276-279: the reaction entry is a discord.Emoji with the counter's id;
\* only then are its users fetched.
ReactionMatches(reaction, emoji) ==
    /\ reaction.isEmoji
    /\ reaction.id = emoji

\* Mutant of ReactionCounts: the bot test looks at all the reactors, not at
\* the ones left by the author filter.
ReactionCountsBotTestUnnarrowed(users, user_ids, contains_bot) ==
    LET narrowed == IF user_ids # {} THEN {u \in users : u \in user_ids} ELSE users
    IN  /\ narrowed # {}
        /\ ~(~contains_bot /\ \A u \in users : IsBot(u))

\* Lines 281-287: the fetched users make the entry count.
ReactionCounts(users, user_ids, contains_bot) ==
    LET narrowed == IF user_ids # {} THEN {u \in users : u \in user_ids} ELSE users
    IN  /\ narrowed # {}
        /\ ~(~contains_bot /\ \A u \in narrowed : IsBot(u))

\* count_emojis runs without suspension from one `reaction.users()` to the
\* next. Position (mi, ci, ri): message mi, counter ci, and ri = 0 for the
\* text test or ri >= 1 for the ri-th reaction entry. RunCount runs from a
\* position to the next fetch of a matching entry's users (awaiting) or to
\* the end of the messages. user_ids is the set taken at line 265;
\* contains_bot is self._contains_bot as read during this stretch.
RECURSIVE RunCount(_, _, _, _, _, _, _)
RunCount(cs, msgs, user_ids, contains_bot, mi, ci, ri) ==
    IF mi > Len(msgs)
    THEN [counters |-> cs, mi |-> mi, ci |-> ci, ri |-> ri, awaiting |-> FALSE]
    ELSE IF ci > Len(cs)
    THEN RunCount(cs, msgs, user_ids, contains_bot, mi + 1, 1, 0)
    ELSE IF ri = 0
    THEN RunCount(
            IF TextCounts(cs[ci].emoji, msgs[mi], user_ids, contains_bot)
            THEN [cs EXCEPT ![ci] = Increment(@, MESSAGE_CONTENT)] ELSE cs,
            msgs, user_ids, contains_bot, mi, ci, 1)
    ELSE IF ri > Len(msgs[mi].reactions)
    THEN RunCount(cs, msgs, user_ids, contains_bot, mi, ci + 1, 0)
    ELSE IF ReactionMatches(msgs[mi].reactions[ri], cs[ci].emoji)
    THEN [counters |-> cs, mi |-> mi, ci |-> ci, ri |-> ri, awaiting |-> TRUE]
    ELSE RunCount(cs, msgs, user_ids, contains_bot, mi, ci, ri + 1)

\* The start of count_emojis, up to its first suspension.
StartCount(cs, msgs, user_ids, contains_bot) ==
    RunCount(cs, msgs, user_ids, contains_bot, 1, 1, 0)

\* `reaction.users()` has returned at position st: lines 281-288, then on to
\* the next suspension.
UsersFetched(st, msgs, user_ids, contains_bot) ==
    LET users == msgs[st.mi].reactions[st.ri].users
        cs == IF ReactionCounts(users, user_ids, contains_bot)
              THEN [st.counters EXCEPT ![st.ci] = Increment(@, MESSAGE_REACTION)]
              ELSE st.counters
    IN  RunCount(cs, msgs, user_ids, contains_bot, st.mi, st.ci, st.ri + 1)

RECURSIVE FinishCount(_, _, _, _)
FinishCount(st, msgs, user_ids, contains_bot) ==
    IF st.awaiting
    THEN FinishCount(UsersFetched(st, msgs, user_ids, contains_bot),
                     msgs, user_ids, contains_bot)
    ELSE st.counters

\* count_emojis(counters, messages) when nothing else touches the cog while
\* it is suspended: self._user_ids = user_ids, self._contains_bot = contains_bot.
count_emojis(cs, msgs, user_ids, contains_bot) ==
    FinishCount(StartCount(cs, msgs, user_ids, contains_bot),
                msgs, user_ids, contains_bot)

\* ------------------------------------------------------------------ state
\* _Constant.DEFAULT_RANK
DEFAULT_RANK == 10

VARIABLES
    emojis,           \* ctx.guild.emojis: the ids of the catalog, in order
    _order,           \* self._order
    _rank,            \* self._rank
    _contains_bot,    \* self._contains_bot
    _user_ids,        \* self._user_ids, read only through set() and truth
    counters,         \* the counters handed to count_emojis and sort_ranking
    slice_num,        \* the slice_num sort_ranking was called with
    sorted_counters,  \* what sort_ranking returned
    messages,         \* the messages handed to count_emojis
    prev_counters,    \* the counters as they were before the latest call
    calls,            \* count_emojis calls made so far
    pool,             \* messages to be fed in batches
    fed,              \* the indices of pool fed so far
    merged,           \* the sum of the tallies of batches counted separately
    pc,               \* where the calling code stands
    _channel_ids,     \* self._channel_ids
    chanMode,         \* per channel: what channel.history() does
    run               \* per invocation: the locals of _execute and count_emojis

cog == <<_order, _rank, _contains_bot, _user_ids, _channel_ids>>
rankVars == <<slice_num, sorted_counters>>
countVars == <<messages, prev_counters, calls>>
batchVars == <<pool, fed, merged>>
runVars == <<chanMode, run>>
vars == <<emojis, cog, counters, rankVars, countVars, batchVars, pc, runVars>>

\* What a specification does not use stays as it is here.
NoRanking == slice_num = 0 /\ sorted_counters = <<>>
NoCounting == messages = <<>> /\ prev_counters = <<>> /\ calls = 0
NoBatches == pool = <<>> /\ fed = {} /\ merged = <<>>
NoRuns == _channel_ids = <<>> /\ chanMode = <<>> /\ run = <<>>

Catalog(n) == [i \in 1..n |-> i]

\* counters = [_EmojiCounter(emoji) for emoji in ctx.guild.emojis]
NewCounters(catalog) == [i \in 1..Len(catalog) |-> NewCounter(catalog[i])]

\* ------------------------------------------------------------------ SpecRank
Tallies == [content : 0..MaxContent, reaction : 0..MaxReaction]

\* Requested sizes: below 1, inside the catalog and beyond it.
RankRequests == (-1)..(NumEmojis + 2)

\* Counters of an n-symbol catalog, in catalog order, with arbitrary tallies.
CountersOf(n) ==
    {[i \in 1..n |-> [emoji |-> i, rank |-> 0,
                      content |-> t[i].content, reaction |-> t[i].reaction]] :
        t \in [1..n -> Tallies]}

CountersWith(t) ==
    [i \in 1..Len(t) |-> [emoji |-> i, rank |-> 0,
                          content |-> t[i][1], reaction |-> t[i][2]]]

\* The catalogs A, B, C, D of section 8 of the specification, with totals
\* 5, 5, 3, 1 and 5, 5, 5, 1.
ExampleCounters ==
    {CountersWith(<<<<3, 2>>, <<1, 4>>, <<3, 0>>, <<0, 1>>>>),
     CountersWith(<<<<5, 0>>, <<2, 3>>, <<0, 5>>, <<1, 0>>>>)}

InitRank ==
    /\ counters \in (UNION {CountersOf(n) : n \in 0..NumEmojis}) \cup ExampleCounters
    /\ emojis = Catalog(Len(counters))
    /\ _order \in SortOrders
    /\ _rank \in RankRequests
    /\ _contains_bot = FALSE
    /\ _user_ids = {}
    /\ NoRanking /\ NoCounting /\ NoBatches /\ NoRuns
    /\ pc = "start"

\* A direct call sort_ranking(counters, self._rank): no clamp.
SortRankingCall ==
    /\ pc = "start"
    /\ slice_num' = _rank
    /\ sorted_counters' = sort_ranking(counters, _order, _rank)
    /\ counters' = WithRanks(counters, sorted_counters')
    /\ pc' = "sorted"
    /\ UNCHANGED <<emojis, cog, countVars, batchVars, runVars>>

\* _execute lines 233-234: clamp, then rank.
ExecuteRank ==
    /\ pc = "start"
    /\ slice_num' = ClampRank(_rank, Len(emojis))
    /\ sorted_counters' = sort_ranking(counters, _order, slice_num')
    /\ counters' = WithRanks(counters, sorted_counters')
    /\ pc' = "executed"
    /\ UNCHANGED <<emojis, cog, countVars, batchVars, runVars>>

NextRank == SortRankingCall \/ ExecuteRank

SpecRank == InitRank /\ [][NextRank]_vars

\* ------------------------------------------------------------------ SpecCount
\* A reaction entry: reaction.emoji is a discord.Emoji (of the catalog, or
\* with the id NumEmojis + 1 of no catalog emoji) or something else (a
\* PartialEmoji, a unicode string), and the users reaction.users() yields.
ReactionEntries ==
    [isEmoji : {TRUE}, id : 1..(NumEmojis + 1), users : SUBSET Users]
        \cup [isEmoji : {FALSE}, id : {1}, users : SUBSET Users]

\* From section 8 of the specification: 2 of 3 reactors are bots on one
\* entry and all reactors are bots on another, beside an entry of no catalog
\* emoji.
MsgMixedReactors ==
    [author |-> 1, content |-> <<"a", "b">>,
     reactions |-> <<[isEmoji |-> TRUE, id |-> 1, users |-> {1, 2, 3}],
                     [isEmoji |-> TRUE, id |-> NumEmojis + 1, users |-> {1}],
                     [isEmoji |-> TRUE, id |-> 2, users |-> {2, 3}]>>]

\* A bot's message, with an entry that is no discord.Emoji.
MsgByBot ==
    [author |-> 2, content |-> <<"a", "b">>,
     reactions |-> <<[isEmoji |-> FALSE, id |-> 1, users |-> {1}],
                     [isEmoji |-> TRUE, id |-> 1, users |-> {1}]>>]

MsgNameTwice ==
    [author |-> 3, content |-> <<"a", "a">>,
     reactions |-> <<[isEmoji |-> TRUE, id |-> 2, users |-> {1, 3}]>>]

MsgPlain == [author |-> 1, content |-> <<"b">>, reactions |-> <<>>]

ExampleMessages == {MsgMixedReactors, MsgByBot, MsgNameTwice, MsgPlain}

\* Every message with no reaction entry or one, and the example messages,
\* which carry several.
ReactionLists == {<<>>} \cup {<<e>> : e \in ReactionEntries}

Messages ==
    [author : Users, content : Texts, reactions : ReactionLists]
        \cup ExampleMessages

InitCount ==
    /\ emojis = Catalog(NumEmojis)
    /\ counters = NewCounters(emojis)
    /\ _user_ids \in SUBSET Users
    /\ _contains_bot \in BOOLEAN
    /\ _order = DESCENDING
    /\ _rank = DEFAULT_RANK
    /\ \E m \in Messages : messages = <<m>>
    /\ prev_counters = counters
    /\ calls = 0
    /\ NoRanking /\ NoBatches /\ NoRuns
    /\ pc = "start"

\* counters = await self.count_emojis(counters, messages)
CountEmojisCall ==
    /\ calls < MaxCalls
    /\ prev_counters' = counters
    /\ counters' = count_emojis(counters, messages, _user_ids, _contains_bot)
    /\ calls' = calls + 1
    /\ pc' = "counted"
    /\ UNCHANGED <<emojis, cog, rankVars, messages, batchVars, runVars>>

NextCount == CountEmojisCall

SpecCount == InitCount /\ [][NextCount]_vars

\* ------------------------------------------------------------------ SpecBatch
ExampleSeq == <<MsgMixedReactors, MsgByBot, MsgNameTwice, MsgPlain>>

\* Every pool of up to MaxPool example messages, a message more than once
\* too. The order within the pool is fixed; the batches take every order.
PoolsOf(n) ==
    {[k \in 1..n |-> ExampleSeq[f[k]]] :
        f \in {g \in [1..n -> 1..Len(ExampleSeq)] :
                  \A i, j \in 1..n : i <= j => g[i] <= g[j]}}

Pools == UNION {PoolsOf(n) : n \in 0..MaxPool}

\* Every order of the elements of S.
Orders(S) ==
    {b \in [1..Cardinality(S) -> S] :
        \A i, j \in 1..Cardinality(S) : i # j => b[i] # b[j]}

\* Tally addition of two counter lists of one catalog.
AddTallies(xs, ys) ==
    [i \in 1..Len(xs) |->
        [xs[i] EXCEPT !.content = @ + ys[i].content,
                      !.reaction = @ + ys[i].reaction]]

InitBatch ==
    /\ emojis = Catalog(NumEmojis)
    /\ counters = NewCounters(emojis)
    /\ merged = NewCounters(emojis)
    /\ _user_ids \in SUBSET Users
    /\ _contains_bot \in BOOLEAN
    /\ _order = DESCENDING
    /\ _rank = DEFAULT_RANK
    /\ pool \in Pools
    /\ fed = {}
    /\ NoRanking /\ NoCounting /\ NoRuns
    /\ pc = "start"

\* One more batch, any messages of the pool not fed yet in any order (none,
\* too): counted into the running counters, and counted on its own into
\* fresh counters whose tallies are added to merged.
FeedBatch ==
    \E S \in SUBSET ((1..Len(pool)) \ fed) :
        \E b \in Orders(S) :
            LET batch == [k \in 1..Len(b) |-> pool[b[k]]]
            IN  /\ counters' = count_emojis(counters, batch, _user_ids, _contains_bot)
                /\ merged' = AddTallies(merged,
                                 count_emojis(NewCounters(emojis), batch,
                                              _user_ids, _contains_bot))
                /\ fed' = fed \cup S
                /\ pc' = "counted"
                /\ UNCHANGED <<emojis, cog, rankVars, countVars, pool, runVars>>

NextBatch == FeedBatch

SpecBatch == InitBatch /\ [][NextBatch]_vars

\* ------------------------------------------------------------------ Spec, SpecSolo
Runs == 1..NumRuns

\* The guild: two emojis, two text channels with their history, a voice
\* channel.
GuildEmojis == Catalog(2)
GuildChannels == <<1, 2, 3>>
TextChannels == {1, 2}
None == 0

\* ctx.guild.get_channel(channel_id)
get_channel(channel_id) ==
    IF \E k \in 1..Len(GuildChannels) : GuildChannels[k] = channel_id
    THEN channel_id ELSE None

\* What channel.history(limit=None, ...) yields when it is not cut short.
History(channel) ==
    IF channel = 1 THEN <<MsgMixedReactors, MsgPlain>> ELSE <<MsgByBot>>

\* channel.history() of a channel: "ok" yields every message; "forbidden"
\* raises discord.Forbidden and "error" another exception (a network
\* error), either after any number of messages.
ChanModes == [TextChannels -> {"ok", "forbidden", "error"}]

\* The options of one invocation as they reach _parse_args in args: order is
\* the string ("" when absent), rank and bot hold the value or nothing, user
\* and channel the ids given.
Commands ==
    [order : {"", "ascending"}, rank : {<<>>, <<1>>}, bot : {<<>>, <<TRUE>>},
     user : {{}, {1}}, channel : {<<>>}]
        \cup {[order |-> "descending", rank |-> <<>>, bot |-> <<>>,
               user |-> {}, channel |-> <<2, 3, 9>>]}

NoCommand == [order |-> "", rank |-> <<>>, bot |-> <<>>, user |-> {}, channel |-> <<>>]
NoReport == [order |-> "", top |-> 0, users |-> {}, fields |-> <<>>]
NoPos == [mi |-> 0, ci |-> 0, ri |-> 0]

NewRun(state) ==
    [pc |-> state, args |-> NoCommand, counters |-> <<>>, channels |-> <<>>,
     ch |-> 0, fetched |-> <<>>, user_ids |-> {}, pos |-> NoPos,
     report |-> NoReport]

\* int(args.get("rank", _Constant.DEFAULT_RANK))
ParseRank(v) == IF v = <<>> THEN DEFAULT_RANK ELSE v[1]

\* get_bool(args, "bot", False)
ParseBot(v) == IF v = <<>> THEN FALSE ELSE v[1]

\* Lines 208-217: the channels asked for, or all of the guild's, and of
\* these the text channels that exist.
SelectChannels(channel_ids) ==
    LET asked == IF Len(channel_ids) > 0
                 THEN [k \in 1..Len(channel_ids) |-> get_channel(channel_ids[k])]
                 ELSE GuildChannels
    IN  SelectSeq(asked, LAMBDA c : c # None /\ c \in TextChannels)

\* EmojiRanking.__init__, and no invocation yet.
InitCog ==
    /\ _order = DESCENDING
    /\ _rank = DEFAULT_RANK
    /\ _contains_bot = FALSE
    /\ _user_ids = {}
    /\ _channel_ids = <<>>

InitGuild ==
    /\ emojis = GuildEmojis
    /\ chanMode \in ChanModes
    /\ counters = <<>>
    /\ NoRanking /\ NoCounting /\ NoBatches
    /\ pc = "start"

Init ==
    /\ InitCog /\ InitGuild
    /\ run = [r \in Runs |-> NewRun("idle")]

InitSolo ==
    /\ InitCog /\ InitGuild
    /\ run = [r \in Runs |-> NewRun(IF r = 1 THEN "idle" ELSE "off")]

\* Lines 233-260, up to `await ctx.send(embed=embed)`: the size is clamped,
\* the counters ranked, and the embed built from self._order, the size,
\* self._user_ids and the ranked counters.
Rank(rec, cs) ==
    LET rank == ClampRank(_rank, Len(emojis))
        sorted == sort_ranking(cs, _order, rank)
    IN  [rec EXCEPT !.pc = "send",
                    !.counters = WithRanks(cs, sorted),
                    !.fetched = <<>>,
                    !.pos = NoPos,
                    !.report = [order |-> _order, top |-> rank,
                                users |-> _user_ids, fields |-> sorted]]

\* The channel loop of line 218 moves on past channel rec.ch with counters
\* cs: to the next channel's history, or out of the loop.
NextChannel(rec, cs) ==
    IF rec.ch < Len(rec.channels)
    THEN [rec EXCEPT !.pc = "history", !.counters = cs, !.ch = @ + 1,
                     !.fetched = <<>>, !.pos = NoPos]
    ELSE Rank(rec, cs)

\* count_emojis has run to position st: it waits for reaction.users(), or
\* has returned to the channel loop.
Counting(rec, st) ==
    IF st.awaiting
    THEN [rec EXCEPT !.pc = "users", !.counters = st.counters,
                     !.pos = [mi |-> st.mi, ci |-> st.ci, ri |-> st.ri]]
    ELSE NextChannel(rec, st.counters)

\* emoji_ranking, _run_ranking, _parse_args, and _execute up to
\* `await ctx.interaction.response.defer()`: the options are stored on the
\* cog.
Invoke(r) ==
    /\ run[r].pc = "idle"
    /\ \E args \in Commands :
        /\ _channel_ids' = args.channel
        /\ _order' = Parse(args.order)
        /\ _rank' = ParseRank(args.rank)
        /\ _contains_bot' = ParseBot(args.bot)
        /\ _user_ids' = args.user
        /\ run' = [run EXCEPT ![r] = [@ EXCEPT !.pc = "defer", !.args = args]]
    /\ UNCHANGED <<emojis, counters, rankVars, countVars, batchVars, pc, chanMode>>

\* defer() has returned: lines 203-218, up to the first channel.history(),
\* or on to the ranking when no channel is left to read.
Deferred(r) ==
    /\ run[r].pc = "defer"
    /\ LET rec == [run[r] EXCEPT !.channels = SelectChannels(_channel_ids),
                                 !.ch = 0]
       IN  run' = [run EXCEPT ![r] = NextChannel(rec, NewCounters(emojis))]
    /\ UNCHANGED <<emojis, cog, counters, rankVars, countVars, batchVars, pc, chanMode>>

\* channel.history() yields one more message into the list being built.
HistoryPage(r) ==
    /\ run[r].pc = "history"
    /\ LET all == History(run[r].channels[run[r].ch])
           n == Len(run[r].fetched)
       IN  /\ n < Len(all)
           /\ run' = [run EXCEPT ![r].fetched = Append(@, all[n + 1])]
    /\ UNCHANGED <<emojis, cog, counters, rankVars, countVars, batchVars, pc, chanMode>>

\* The list is complete: line 231, count_emojis up to its first
\* reaction.users(); user_ids is taken from self._user_ids now.
HistoryDone(r) ==
    /\ run[r].pc = "history"
    /\ chanMode[run[r].channels[run[r].ch]] = "ok"
    /\ run[r].fetched = History(run[r].channels[run[r].ch])
    /\ LET rec == [run[r] EXCEPT !.user_ids = _user_ids]
           st == StartCount(rec.counters, rec.fetched, rec.user_ids, _contains_bot)
       IN  run' = [run EXCEPT ![r] = Counting(rec, st)]
    /\ UNCHANGED <<emojis, cog, counters, rankVars, countVars, batchVars, pc, chanMode>>

\* channel.history() raises discord.Forbidden: lines 227-229, the list built
\* so far is dropped and the loop goes on.
HistoryForbidden(r) ==
    /\ run[r].pc = "history"
    /\ chanMode[run[r].channels[run[r].ch]] = "forbidden"
    /\ run' = [run EXCEPT ![r] = NextChannel(run[r], run[r].counters)]
    /\ UNCHANGED <<emojis, cog, counters, rankVars, countVars, batchVars, pc, chanMode>>

\* channel.history() raises anything else: no except clause takes it, and it
\* leaves _execute.
HistoryError(r) ==
    /\ run[r].pc = "history"
    /\ chanMode[run[r].channels[run[r].ch]] = "error"
    /\ run' = [run EXCEPT ![r] = [@ EXCEPT !.pc = "failed", !.fetched = <<>>]]
    /\ UNCHANGED <<emojis, cog, counters, rankVars, countVars, batchVars, pc, chanMode>>

\* reaction.users() has returned: lines 281-288 with self._contains_bot as
\* it is now, and on to the next suspension.
UsersReturned(r) ==
    /\ run[r].pc = "users"
    /\ LET rec == run[r]
           at == [counters |-> rec.counters, mi |-> rec.pos.mi, ci |-> rec.pos.ci,
                  ri |-> rec.pos.ri, awaiting |-> TRUE]
           st == UsersFetched(at, rec.fetched, rec.user_ids, _contains_bot)
       IN  run' = [run EXCEPT ![r] = Counting(rec, st)]
    /\ UNCHANGED <<emojis, cog, counters, rankVars, countVars, batchVars, pc, chanMode>>

\* ctx.send(embed=embed) has returned.
Sent(r) ==
    /\ run[r].pc = "send"
    /\ run' = [run EXCEPT ![r].pc = "done"]
    /\ UNCHANGED <<emojis, cog, counters, rankVars, countVars, batchVars, pc, chanMode>>

Next ==
    \E r \in Runs :
        \/ Invoke(r)
        \/ Deferred(r)
        \/ HistoryPage(r)
        \/ HistoryDone(r)
        \/ HistoryForbidden(r)
        \/ HistoryError(r)
        \/ UsersReturned(r)
        \/ Sent(r)

Spec == Init /\ [][Next]_vars

SpecSolo == InitSolo /\ [][Next]_vars

\* ------------------------------------------------------------------ claims on sort_ranking
Ranked == pc \in {"sorted", "executed"}
Total(i) == total_count(sorted_counters[i])
Better(i, j) == KeyBefore(sorted_counters[i], sorted_counters[j], Reverse(_order))
EmojiOrder == [i \in 1..Len(sorted_counters) |-> sorted_counters[i].emoji]
RankOrder == [i \in 1..Len(sorted_counters) |-> sorted_counters[i].rank]
TotalOrder == [i \in 1..Len(sorted_counters) |-> Total(i)]

\* C1: over the truncated sorted sequence the first entry has rank 1, and the
\* entry at 1-based position i > 1 has its predecessor's rank when their
\* totals are equal and rank i otherwise (never predecessor's rank + 1).
C1_RankRule ==
    Ranked =>
        \A i \in 1..Len(sorted_counters) :
            sorted_counters[i].rank =
                IF i = 1 THEN 1
                ELSE IF Total(i - 1) = Total(i) THEN sorted_counters[i - 1].rank
                ELSE i

\* Totals 5, 5, 3, 1 in catalog order A, B, C, D, DESCENDING, limit 4:
\* ranks A:1, B:1, C:3, D:4.
C1_Witness ==
    /\ Ranked /\ _order = DESCENDING /\ slice_num = 4
    /\ EmojiOrder = <<1, 2, 3, 4>>
    /\ TotalOrder = <<5, 5, 3, 1>>
    /\ RankOrder = <<1, 1, 3, 4>>

\* C2: the output is ordered by total (non-increasing for DESCENDING,
\* non-decreasing for ASCENDING), every entry is one of the counters with its
\* tallies, and in both directions entries of equal total keep catalog order.
C2_StableOrder ==
    Ranked =>
        /\ \A i \in 1..Len(sorted_counters) :
            \E k \in 1..Len(counters) :
                /\ counters[k].emoji = sorted_counters[i].emoji
                /\ counters[k].content = sorted_counters[i].content
                /\ counters[k].reaction = sorted_counters[i].reaction
        /\ \A i, j \in 1..Len(sorted_counters) :
            i < j =>
                /\ ~Better(j, i)
                /\ Total(i) = Total(j) =>
                       sorted_counters[i].emoji < sorted_counters[j].emoji

\* ASCENDING on totals 5, 5, 3, 1: order D, C, A, B with ranks 1, 2, 3, 3.
C2_Witness ==
    /\ Ranked /\ _order = ASCENDING
    /\ EmojiOrder = <<4, 3, 1, 2>>
    /\ TotalOrder = <<1, 3, 5, 5>>
    /\ RankOrder = <<1, 2, 3, 3>>

Returned(k) == \E i \in 1..Len(sorted_counters) : sorted_counters[i].emoji = counters[k].emoji

\* k goes before m in the full stable sort: a strictly better total, or the
\* same total and an earlier place in the catalog.
StablyBefore(k, m) ==
    \/ KeyBefore(counters[k], counters[m], Reverse(_order))
    \/ /\ total_count(counters[k]) = total_count(counters[m])
       /\ k < m

\* C3: for a limit in [1, n] exactly limit entries are returned, they are the
\* first limit entries of the full stable sort (every returned counter goes
\* before every counter left out, ties at the cut included), and a counter
\* left out is given no rank.
C3_TruncateBeforeRank ==
    (Ranked /\ slice_num \in 1..Len(counters)) =>
        /\ Len(sorted_counters) = slice_num
        /\ \A i, j \in 1..Len(sorted_counters) :
            i # j => sorted_counters[i].emoji # sorted_counters[j].emoji
        /\ \A k, m \in 1..Len(counters) :
            (Returned(k) /\ ~Returned(m)) => StablyBefore(k, m)
        /\ \A m \in 1..Len(counters) : ~Returned(m) => counters[m].rank = 0

\* Totals 5, 5, 5, 1 and limit 2: the first two come back, both rank 1, and
\* the third, tied with them, is left out unranked.
C3_Witness ==
    /\ Ranked /\ _order = DESCENDING /\ slice_num = 2
    /\ Len(counters) = 4
    /\ EmojiOrder = <<1, 2>>
    /\ RankOrder = <<1, 1>>
    /\ total_count(counters[3]) = total_count(counters[1])
    /\ total_count(counters[4]) < total_count(counters[1])
    /\ counters[3].rank = 0

\* C9 as stated: the limit _execute passes lies in [1, n] for every catalog
\* size n, n = 0 included, and an empty catalog ranks to an empty result.
C9_LimitWithinCatalog ==
    pc = "executed" =>
        /\ slice_num \in 1..Len(emojis)
        /\ Len(emojis) = 0 => sorted_counters = <<>>

\* C9 amended: the limit lies in [1, n] for every catalog of n >= 1 symbols;
\* for the empty catalog the limit is 1 and the result is empty.
C9_LimitClamped ==
    pc = "executed" =>
        /\ Len(emojis) >= 1 => slice_num \in 1..Len(emojis)
        /\ Len(emojis) = 0 => (slice_num = 1 /\ sorted_counters = <<>>)

\* A request below 1 on the empty catalog: the limit is 1, the result empty.
C9_Witness ==
    /\ pc = "executed"
    /\ Len(emojis) = 0
    /\ _rank <= 0
    /\ slice_num = 1
    /\ sorted_counters = <<>>

\* C10: the rank of a returned entry is 1 plus the number of returned
\* entries with a strictly better total; so ranks never decrease along the
\* output, the entry at position p has rank <= p, and two returned entries
\* share a rank exactly when their totals are equal.
C10_CompetitionRank ==
    Ranked =>
        /\ \A i \in 1..Len(sorted_counters) :
            /\ sorted_counters[i].rank =
                   1 + Cardinality({j \in 1..Len(sorted_counters) : Better(j, i)})
            /\ sorted_counters[i].rank <= i
        /\ \A i, j \in 1..Len(sorted_counters) :
            /\ i < j => sorted_counters[i].rank <= sorted_counters[j].rank
            /\ (sorted_counters[i].rank = sorted_counters[j].rank)
                   <=> (Total(i) = Total(j))

\* A run of ties followed by a jump to the raw position.
C10_Witness ==
    /\ Ranked
    /\ \E i \in 2..Len(sorted_counters) :
        sorted_counters[i].rank > sorted_counters[i - 1].rank + 1

\* ------------------------------------------------------------------ claims on count_emojis
Counted == pc = "counted" /\ calls >= 1

AllowedAuthor(u) == _user_ids = {} \/ u \in _user_ids

\* The messages of the latest call whose text counts for catalog emoji i.
TextQualifying(i) ==
    {k \in 1..Len(messages) :
        /\ PyIn(EmojiName(emojis[i]), messages[k].content)
        /\ AllowedAuthor(messages[k].author)
        /\ (_contains_bot \/ ~IsBot(messages[k].author))}

\* C4: a call raises a counter's text count by exactly 1 for each message
\* whose text holds the name, whose author passes the author filter and who
\* is no bot unless bots are included, however often the name occurs; by
\* nothing for any other message.
C4_TextCount ==
    Counted =>
        \A i \in 1..Len(counters) :
            counters[i].content = prev_counters[i].content + Cardinality(TextQualifying(i))

\* An allowed human's message that holds a name twice has added 1 per call.
C4_Witness ==
    /\ Counted /\ calls = 2
    /\ messages[1].content = <<"a", "a">>
    /\ messages[1].author = 1 /\ _user_ids = {1} /\ ~_contains_bot
    /\ prev_counters[1].content = 1
    /\ counters[1].content = 2

Narrowed(users) == IF _user_ids = {} THEN users ELSE users \cap _user_ids

\* The reaction entries (message k, entry j) of the latest call that count
\* for catalog emoji i.
ReactionQualifying(i) ==
    UNION {
        {<<k, j>> : j \in
            {j \in 1..Len(messages[k].reactions) :
                LET r == messages[k].reactions[j]
                IN  /\ r.isEmoji
                    /\ r.id = emojis[i]
                    /\ Narrowed(r.users) # {}
                    /\ (_contains_bot \/ \E u \in Narrowed(r.users) : ~IsBot(u))}}
        : k \in 1..Len(messages)}

\* C5: a call raises a counter's reaction count by exactly 1 for each
\* reaction entry that is a catalog emoji with the counter's id and whose
\* reactors, narrowed to the allowed authors when there are any, are not
\* none and, unless bots are included, not all bots; by nothing for any
\* other entry. The message's author does not enter.
C5_ReactionCount ==
    Counted =>
        \A i \in 1..Len(counters) :
            counters[i].reaction =
                prev_counters[i].reaction + Cardinality(ReactionQualifying(i))

\* Bots excluded and no author filter: the entry with 2 bots among 3
\* reactors has counted once, the entry with only bots has not, on a message
\* that also carries an entry of no catalog emoji.
C5_Witness ==
    /\ Counted /\ calls = 1
    /\ ~_contains_bot /\ _user_ids = {}
    /\ Len(messages[1].reactions) = 3
    /\ messages[1].reactions[1].users = {1, 2, 3}
    /\ counters[1].reaction = 1
    /\ counters[2].reaction = 0

\* ------------------------------------------------------------------ claims on batches
RECURSIVE Chosen(_, _, _)
\* The messages of s with an index in S, from index k on, in index order.
Chosen(s, S, k) ==
    IF k > Len(s) THEN <<>>
    ELSE (IF k \in S THEN <<s[k]>> ELSE <<>>) \o Chosen(s, S, k + 1)

\* C6: whatever the partition of the messages into batches and the order of
\* the batches and within them, the counters hold the tallies of one pass
\* over the fed messages in pool order, and so do the added tallies of the
\* batches counted into separate zeroed counters.
C6_OrderIndependent ==
    /\ counters = count_emojis(NewCounters(emojis), Chosen(pool, fed, 1),
                               _user_ids, _contains_bot)
    /\ merged = counters

\* A pool of three different messages or more fed whole, with text and
\* reaction tallies.
C6_Witness ==
    /\ pc = "counted"
    /\ Len(pool) >= 3
    /\ \A i, j \in 1..Len(pool) : i # j => pool[i] # pool[j]
    /\ fed = 1..Len(pool)
    /\ \E i \in 1..Len(counters) : counters[i].content >= 2
    /\ \E i \in 1..Len(counters) : counters[i].reaction >= 2

\* ------------------------------------------------------------------ claims on the command
RECURSIVE CountReadable(_, _, _, _, _)
\* The counters after the channels chans[k..] that can be read have been
\* counted, one after the other, under one filter.
CountReadable(cs, chans, k, user_ids, contains_bot) ==
    IF k > Len(chans) THEN cs
    ELSE CountReadable(
            IF chanMode[chans[k]] = "ok"
            THEN count_emojis(cs, History(chans[k]), user_ids, contains_bot)
            ELSE cs,
            chans, k + 1, user_ids, contains_bot)

\* The report of an invocation with the options args that keeps to its own
\* options from start to end and skips the channels it cannot read.
SoloReport(args) ==
    LET order == Parse(args.order)
        top == ClampRank(ParseRank(args.rank), Len(emojis))
        cs == CountReadable(NewCounters(emojis), SelectChannels(args.channel), 1,
                            args.user, ParseBot(args.bot))
    IN  [order |-> order, top |-> top, users |-> args.user,
         fields |-> sort_ranking(cs, order, top)]

Reported(r) == run[r].pc \in {"send", "done"}

\* C7: a failure of one channel's history, permission denial or network
\* error, at any point of the retrieval never aborts the run; the failing
\* channel adds nothing, partial lists included, every other selected channel
\* is counted, and the report is ranked and delivered.
C7_FailureNeverAborts ==
    \A r \in Runs :
        /\ run[r].pc # "failed"
        /\ Reported(r) => run[r].report.fields = SoloReport(run[r].args).fields

\* C8: with invocations interleaving at their awaits, each report is the one
\* the invocation would produce alone: counted and ranked on its own counters
\* under the author filter, bot toggle, order and size of its own options.
\* (It holds of a single invocation, SpecSolo.)
C8_RunsIsolated ==
    \A r \in Runs : Reported(r) => run[r].report = SoloReport(run[r].args)

====
